---- MODULE Spec2Model ----
(***************************************************************************)
(* Proof-of-existence runtime module (runtime/src/poe.rs): a map from      *)
(* digest to (owner, time), guarded by a reservable deposit of POE_FEE.    *)
(* The two dispatchables create_claim and revoke_claim are modelled as     *)
(* operators on a state record, applied by the actions CreateClaim and     *)
(* RevokeClaim; the Currency and timestamp collaborators are modelled by   *)
(* the operators the module calls on them.                                 *)
(***************************************************************************)
EXTENDS Integers, Sequences, FiniteSets, TLC

\* ---------------------------------------------------------------- constants
DIGEST_MAXSIZE == 100
POE_FEE == 1000
GenesisBalance == 10000

ERR_DIGEST_TOO_LONG == "Digest too long (max 100 bytes)"
ERR_ALREADY_CLAIMED == "This proof has already been claimed"
ERR_NOT_CLAIMED == "This proof has not been claimed yet"
ERR_NOT_OWNER == "You must own this claim to revoke it"
ERR_BAD_ORIGIN == "bad origin: expected to be a signed origin"
\* The message of the Currency's reserve, passed on by the ? of create_claim.
ERR_NO_FUNDS == "not enough free funds"
OK == "Ok"

\* ------------------------------------------------------------------- bounds
MaxTime == 1
MaxEvents == 3

Accounts == {1, 2}

\* Origins a dispatchable can be called with: signed by an account, or not.
Signed(a) == [kind |-> "Signed", who |-> a]
RootOrigin == [kind |-> "Root", who |-> 0]
Origins == {Signed(a) : a \in Accounts} \cup {RootOrigin}

\* Vec<u8> digests: vec![b; n].  The lengths cover a short digest, the longest
\* accepted one and the shortest rejected one.
Fill(n, b) == [i \in 1..n |-> b]
DigestLens == {1, DIGEST_MAXSIZE, DIGEST_MAXSIZE + 1}
Digests == {Fill(n, 0) : n \in DigestLens}

\* Free balances an account may hold at genesis.
LowBalance == POE_FEE
InitBalances == {LowBalance, GenesisBalance}

\* Amounts another module may slash: part of one deposit, or everything.
SlashValues == {POE_FEE \div 2}

VARIABLES Proofs, free, reserved, events, now, result, preCreate

vars == <<Proofs, free, reserved, events, now, result, preCreate>>

\* The storage the dispatchables read and write, as one record.
St == [Proofs |-> Proofs, free |-> free, reserved |-> reserved,
       events |-> events, now |-> now]

Min(a, b) == IF a <= b THEN a ELSE b

\* ------------------------------------------------------------ collaborators
ensure_signed(origin) ==
    IF origin.kind = "Signed" THEN [ok |-> TRUE, who |-> origin.who]
    ELSE [ok |-> FALSE, who |-> 0]

exists(s, digest) == digest \in DOMAIN s.Proofs

insert(s, digest, value) ==
    [s EXCEPT !.Proofs = [d \in DOMAIN s.Proofs \cup {digest} |->
                             IF d = digest THEN value ELSE s.Proofs[d]]]

remove(s, digest) ==
    [s EXCEPT !.Proofs = [d \in DOMAIN s.Proofs \ {digest} |-> s.Proofs[d]]]

\* Currency::reserve: move value from free to reserved, or fail untouched.
reserve(s, who, value) ==
    IF s.free[who] < value
    THEN [ok |-> FALSE, s |-> s]
    ELSE [ok |-> TRUE,
          s |-> [s EXCEPT !.free[who] = @ - value, !.reserved[who] = @ + value]]

\* Currency::unreserve: move up to value back to free; returns what is missing.
unreserve(s, who, value) ==
    LET actual == Min(s.reserved[who], value)
    IN [remaining |-> value - actual,
        s |-> [s EXCEPT !.free[who] = @ + actual, !.reserved[who] = @ - actual]]

\* ReservableCurrency::slash_reserved: take up to value out of reserved.
slash_reserved(s, who, value) ==
    [s EXCEPT !.reserved[who] = @ - Min(@, value)]

ClaimCreated(who, time, digest) ==
    [kind |-> "ClaimCreated", who |-> who, time |-> time, digest |-> digest]
ClaimRevoked(who, digest) ==
    [kind |-> "ClaimRevoked", who |-> who, digest |-> digest]

deposit_event(s, ev) == [s EXCEPT !.events = Append(@, ev)]

\* ------------------------------------------------------------ dispatchables
\* A dispatchable returns Ok(()) or Err(message); storage written before an
\* Err is returned stays written, so the outcome carries the storage as the
\* call left it.  remaining is what unreserve returned (the code drops it).
Outcome(s, err, remaining) == [s |-> s, err |-> err, remaining |-> remaining]

\* Variants of create_claim with one step wrong, used to test the properties.
\* The "already claimed" check is missing.
create_claim_no_exists_check(s, origin, digest) ==
    LET signed == ensure_signed(origin)
        sender == signed.who
    IN IF ~signed.ok THEN Outcome(s, ERR_BAD_ORIGIN, 0)
       ELSE IF ~(Len(digest) <= DIGEST_MAXSIZE) THEN Outcome(s, ERR_DIGEST_TOO_LONG, 0)
       ELSE LET time == s.now
                r == reserve(s, sender, POE_FEE)
            IN IF ~r.ok THEN Outcome(s, ERR_NO_FUNDS, 0)
               ELSE LET s1 == insert(r.s, digest, [owner |-> sender, time |-> time])
                        s2 == deposit_event(s1, ClaimCreated(sender, time, digest))
                    IN Outcome(s2, OK, 0)

\* The proof is stored before the fee is reserved.
create_claim_insert_first(s, origin, digest) ==
    LET signed == ensure_signed(origin)
        sender == signed.who
    IN IF ~signed.ok THEN Outcome(s, ERR_BAD_ORIGIN, 0)
       ELSE IF ~(Len(digest) <= DIGEST_MAXSIZE) THEN Outcome(s, ERR_DIGEST_TOO_LONG, 0)
       ELSE IF exists(s, digest) THEN Outcome(s, ERR_ALREADY_CLAIMED, 0)
       ELSE LET time == s.now
                s1 == insert(s, digest, [owner |-> sender, time |-> time])
                r == reserve(s1, sender, POE_FEE)
            IN IF ~r.ok THEN Outcome(s1, ERR_NO_FUNDS, 0)
               ELSE Outcome(deposit_event(r.s, ClaimCreated(sender, time, digest)), OK, 0)

\* The fee is reserved before the "already claimed" check.
create_claim_reserve_first(s, origin, digest) ==
    LET signed == ensure_signed(origin)
        sender == signed.who
    IN IF ~signed.ok THEN Outcome(s, ERR_BAD_ORIGIN, 0)
       ELSE IF ~(Len(digest) <= DIGEST_MAXSIZE) THEN Outcome(s, ERR_DIGEST_TOO_LONG, 0)
       ELSE LET time == s.now
                r == reserve(s, sender, POE_FEE)
            IN IF ~r.ok THEN Outcome(s, ERR_NO_FUNDS, 0)
               ELSE IF exists(r.s, digest) THEN Outcome(r.s, ERR_ALREADY_CLAIMED, 0)
               ELSE LET s1 == insert(r.s, digest, [owner |-> sender, time |-> time])
                        s2 == deposit_event(s1, ClaimCreated(sender, time, digest))
                    IN Outcome(s2, OK, 0)

\* The size check uses < instead of <=.
create_claim_strict_size(s, origin, digest) ==
    LET signed == ensure_signed(origin)
        sender == signed.who
    IN IF ~signed.ok THEN Outcome(s, ERR_BAD_ORIGIN, 0)
       ELSE IF ~(Len(digest) < DIGEST_MAXSIZE) THEN Outcome(s, ERR_DIGEST_TOO_LONG, 0)
       ELSE IF exists(s, digest) THEN Outcome(s, ERR_ALREADY_CLAIMED, 0)
       ELSE LET time == s.now
                r == reserve(s, sender, POE_FEE)
            IN IF ~r.ok THEN Outcome(s, ERR_NO_FUNDS, 0)
               ELSE LET s1 == insert(r.s, digest, [owner |-> sender, time |-> time])
                        s2 == deposit_event(s1, ClaimCreated(sender, time, digest))
                    IN Outcome(s2, OK, 0)

\* The size check comes after the fee reservation.
create_claim_size_last(s, origin, digest) ==
    LET signed == ensure_signed(origin)
        sender == signed.who
    IN IF ~signed.ok THEN Outcome(s, ERR_BAD_ORIGIN, 0)
       ELSE IF exists(s, digest) THEN Outcome(s, ERR_ALREADY_CLAIMED, 0)
       ELSE LET time == s.now
                r == reserve(s, sender, POE_FEE)
            IN IF ~r.ok THEN Outcome(s, ERR_NO_FUNDS, 0)
               ELSE IF ~(Len(digest) <= DIGEST_MAXSIZE)
                    THEN Outcome(r.s, ERR_DIGEST_TOO_LONG, 0)
               ELSE LET s1 == insert(r.s, digest, [owner |-> sender, time |-> time])
                        s2 == deposit_event(s1, ClaimCreated(sender, time, digest))
                    IN Outcome(s2, OK, 0)

\* No event is deposited.
create_claim_no_event(s, origin, digest) ==
    LET signed == ensure_signed(origin)
        sender == signed.who
    IN IF ~signed.ok THEN Outcome(s, ERR_BAD_ORIGIN, 0)
       ELSE IF ~(Len(digest) <= DIGEST_MAXSIZE) THEN Outcome(s, ERR_DIGEST_TOO_LONG, 0)
       ELSE IF exists(s, digest) THEN Outcome(s, ERR_ALREADY_CLAIMED, 0)
       ELSE LET time == s.now
                r == reserve(s, sender, POE_FEE)
            IN IF ~r.ok THEN Outcome(s, ERR_NO_FUNDS, 0)
               ELSE Outcome(insert(r.s, digest, [owner |-> sender, time |-> time]), OK, 0)

\* The default Moment is stored instead of the block time.
create_claim_default_time(s, origin, digest) ==
    LET signed == ensure_signed(origin)
        sender == signed.who
    IN IF ~signed.ok THEN Outcome(s, ERR_BAD_ORIGIN, 0)
       ELSE IF ~(Len(digest) <= DIGEST_MAXSIZE) THEN Outcome(s, ERR_DIGEST_TOO_LONG, 0)
       ELSE IF exists(s, digest) THEN Outcome(s, ERR_ALREADY_CLAIMED, 0)
       ELSE LET time == s.now
                r == reserve(s, sender, POE_FEE)
            IN IF ~r.ok THEN Outcome(s, ERR_NO_FUNDS, 0)
               ELSE LET s1 == insert(r.s, digest, [owner |-> sender, time |-> 0])
                        s2 == deposit_event(s1, ClaimCreated(sender, time, digest))
                    IN Outcome(s2, OK, 0)

\* The size check is missing.
create_claim_no_size_check(s, origin, digest) ==
    LET signed == ensure_signed(origin)
        sender == signed.who
    IN IF ~signed.ok THEN Outcome(s, ERR_BAD_ORIGIN, 0)
       ELSE IF exists(s, digest) THEN Outcome(s, ERR_ALREADY_CLAIMED, 0)
       ELSE LET time == s.now
                r == reserve(s, sender, POE_FEE)
            IN IF ~r.ok THEN Outcome(s, ERR_NO_FUNDS, 0)
               ELSE LET s1 == insert(r.s, digest, [owner |-> sender, time |-> time])
                        s2 == deposit_event(s1, ClaimCreated(sender, time, digest))
                    IN Outcome(s2, OK, 0)

\* The result of reserve is not looked at (the ? is missing).
create_claim_ignore_reserve(s, origin, digest) ==
    LET signed == ensure_signed(origin)
        sender == signed.who
    IN IF ~signed.ok THEN Outcome(s, ERR_BAD_ORIGIN, 0)
       ELSE IF ~(Len(digest) <= DIGEST_MAXSIZE) THEN Outcome(s, ERR_DIGEST_TOO_LONG, 0)
       ELSE IF exists(s, digest) THEN Outcome(s, ERR_ALREADY_CLAIMED, 0)
       ELSE LET time == s.now
                r == reserve(s, sender, POE_FEE)
                s1 == insert(r.s, digest, [owner |-> sender, time |-> time])
                s2 == deposit_event(s1, ClaimCreated(sender, time, digest))
            IN Outcome(s2, OK, 0)

create_claim(s, origin, digest) ==
    LET signed == ensure_signed(origin)
        sender == signed.who
    IN IF ~signed.ok THEN Outcome(s, ERR_BAD_ORIGIN, 0)
       ELSE IF ~(Len(digest) <= DIGEST_MAXSIZE) THEN Outcome(s, ERR_DIGEST_TOO_LONG, 0)
       ELSE IF exists(s, digest) THEN Outcome(s, ERR_ALREADY_CLAIMED, 0)
       ELSE LET time == s.now
                r == reserve(s, sender, POE_FEE)
            IN IF ~r.ok THEN Outcome(s, ERR_NO_FUNDS, 0)
               ELSE LET s1 == insert(r.s, digest, [owner |-> sender, time |-> time])
                        s2 == deposit_event(s1, ClaimCreated(sender, time, digest))
                    IN Outcome(s2, OK, 0)

\* Variants of revoke_claim with one step wrong, used to test the properties.
\* The owner check is missing.
revoke_claim_no_owner_check(s, origin, digest) ==
    LET signed == ensure_signed(origin)
        sender == signed.who
    IN IF ~signed.ok THEN Outcome(s, ERR_BAD_ORIGIN, 0)
       ELSE IF ~(Len(digest) <= DIGEST_MAXSIZE) THEN Outcome(s, ERR_DIGEST_TOO_LONG, 0)
       ELSE IF ~exists(s, digest) THEN Outcome(s, ERR_NOT_CLAIMED, 0)
       ELSE LET s1 == remove(s, digest)
                u == unreserve(s1, sender, POE_FEE)
                s2 == deposit_event(u.s, ClaimRevoked(sender, digest))
            IN Outcome(s2, OK, u.remaining)

\* The fee is not released.
revoke_claim_no_unreserve(s, origin, digest) ==
    LET signed == ensure_signed(origin)
        sender == signed.who
    IN IF ~signed.ok THEN Outcome(s, ERR_BAD_ORIGIN, 0)
       ELSE IF ~(Len(digest) <= DIGEST_MAXSIZE) THEN Outcome(s, ERR_DIGEST_TOO_LONG, 0)
       ELSE IF ~exists(s, digest) THEN Outcome(s, ERR_NOT_CLAIMED, 0)
       ELSE LET owner == s.Proofs[digest].owner
            IN IF ~(sender = owner) THEN Outcome(s, ERR_NOT_OWNER, 0)
               ELSE LET s1 == remove(s, digest)
                        s2 == deposit_event(s1, ClaimRevoked(sender, digest))
                    IN Outcome(s2, OK, 0)

\* The proof is erased before the owner check.
revoke_claim_remove_first(s, origin, digest) ==
    LET signed == ensure_signed(origin)
        sender == signed.who
    IN IF ~signed.ok THEN Outcome(s, ERR_BAD_ORIGIN, 0)
       ELSE IF ~(Len(digest) <= DIGEST_MAXSIZE) THEN Outcome(s, ERR_DIGEST_TOO_LONG, 0)
       ELSE IF ~exists(s, digest) THEN Outcome(s, ERR_NOT_CLAIMED, 0)
       ELSE LET owner == s.Proofs[digest].owner
                s1 == remove(s, digest)
            IN IF ~(sender = owner) THEN Outcome(s1, ERR_NOT_OWNER, 0)
               ELSE LET u == unreserve(s1, sender, POE_FEE)
                        s2 == deposit_event(u.s, ClaimRevoked(sender, digest))
                    IN Outcome(s2, OK, u.remaining)

\* The proof is not erased.
revoke_claim_keep_entry(s, origin, digest) ==
    LET signed == ensure_signed(origin)
        sender == signed.who
    IN IF ~signed.ok THEN Outcome(s, ERR_BAD_ORIGIN, 0)
       ELSE IF ~(Len(digest) <= DIGEST_MAXSIZE) THEN Outcome(s, ERR_DIGEST_TOO_LONG, 0)
       ELSE IF ~exists(s, digest) THEN Outcome(s, ERR_NOT_CLAIMED, 0)
       ELSE LET owner == s.Proofs[digest].owner
            IN IF ~(sender = owner) THEN Outcome(s, ERR_NOT_OWNER, 0)
               ELSE LET u == unreserve(s, sender, POE_FEE)
                        s2 == deposit_event(u.s, ClaimRevoked(sender, digest))
                    IN Outcome(s2, OK, u.remaining)

\* The value returned by unreserve is checked and a shortfall is an error.
revoke_claim_checked(s, origin, digest) ==
    LET signed == ensure_signed(origin)
        sender == signed.who
    IN IF ~signed.ok THEN Outcome(s, ERR_BAD_ORIGIN, 0)
       ELSE IF ~(Len(digest) <= DIGEST_MAXSIZE) THEN Outcome(s, ERR_DIGEST_TOO_LONG, 0)
       ELSE IF ~exists(s, digest) THEN Outcome(s, ERR_NOT_CLAIMED, 0)
       ELSE LET owner == s.Proofs[digest].owner
            IN IF ~(sender = owner) THEN Outcome(s, ERR_NOT_OWNER, 0)
               ELSE LET s1 == remove(s, digest)
                        u == unreserve(s1, sender, POE_FEE)
                        s2 == deposit_event(u.s, ClaimRevoked(sender, digest))
                    IN IF u.remaining > 0
                       THEN Outcome(u.s, "EscrowInconsistency", u.remaining)
                       ELSE Outcome(s2, OK, u.remaining)

\* The owner is read and compared before the "not claimed" check; the map
\* yields the default account for a digest it does not hold.
revoke_claim_owner_first(s, origin, digest) ==
    LET signed == ensure_signed(origin)
        sender == signed.who
    IN IF ~signed.ok THEN Outcome(s, ERR_BAD_ORIGIN, 0)
       ELSE IF ~(Len(digest) <= DIGEST_MAXSIZE) THEN Outcome(s, ERR_DIGEST_TOO_LONG, 0)
       ELSE LET owner == IF exists(s, digest) THEN s.Proofs[digest].owner ELSE 0
            IN IF ~(sender = owner) THEN Outcome(s, ERR_NOT_OWNER, 0)
               ELSE IF ~exists(s, digest) THEN Outcome(s, ERR_NOT_CLAIMED, 0)
               ELSE LET s1 == remove(s, digest)
                        u == unreserve(s1, sender, POE_FEE)
                        s2 == deposit_event(u.s, ClaimRevoked(sender, digest))
                    IN Outcome(s2, OK, u.remaining)

\* No event is deposited.
revoke_claim_no_event(s, origin, digest) ==
    LET signed == ensure_signed(origin)
        sender == signed.who
    IN IF ~signed.ok THEN Outcome(s, ERR_BAD_ORIGIN, 0)
       ELSE IF ~(Len(digest) <= DIGEST_MAXSIZE) THEN Outcome(s, ERR_DIGEST_TOO_LONG, 0)
       ELSE IF ~exists(s, digest) THEN Outcome(s, ERR_NOT_CLAIMED, 0)
       ELSE LET owner == s.Proofs[digest].owner
            IN IF ~(sender = owner) THEN Outcome(s, ERR_NOT_OWNER, 0)
               ELSE LET s1 == remove(s, digest)
                        u == unreserve(s1, sender, POE_FEE)
                    IN Outcome(u.s, OK, u.remaining)

\* Anybody may revoke, and the fee goes back to the owner.
revoke_claim_refund_owner(s, origin, digest) ==
    LET signed == ensure_signed(origin)
        sender == signed.who
    IN IF ~signed.ok THEN Outcome(s, ERR_BAD_ORIGIN, 0)
       ELSE IF ~(Len(digest) <= DIGEST_MAXSIZE) THEN Outcome(s, ERR_DIGEST_TOO_LONG, 0)
       ELSE IF ~exists(s, digest) THEN Outcome(s, ERR_NOT_CLAIMED, 0)
       ELSE LET owner == s.Proofs[digest].owner
                s1 == remove(s, digest)
                u == unreserve(s1, owner, POE_FEE)
                s2 == deposit_event(u.s, ClaimRevoked(sender, digest))
            IN Outcome(s2, OK, u.remaining)

revoke_claim(s, origin, digest) ==
    LET signed == ensure_signed(origin)
        sender == signed.who
    IN IF ~signed.ok THEN Outcome(s, ERR_BAD_ORIGIN, 0)
       ELSE IF ~(Len(digest) <= DIGEST_MAXSIZE) THEN Outcome(s, ERR_DIGEST_TOO_LONG, 0)
       ELSE IF ~exists(s, digest) THEN Outcome(s, ERR_NOT_CLAIMED, 0)
       ELSE LET owner == s.Proofs[digest].owner
            IN IF ~(sender = owner) THEN Outcome(s, ERR_NOT_OWNER, 0)
               ELSE LET s1 == remove(s, digest)
                        u == unreserve(s1, sender, POE_FEE)
                        s2 == deposit_event(u.s, ClaimRevoked(sender, digest))
                    IN Outcome(s2, OK, u.remaining)

\* ------------------------------------------------------------------ actions
Init ==
    /\ Proofs = << >>
    /\ free \in [Accounts -> InitBalances]
    /\ reserved = [a \in Accounts |-> 0]
    /\ events = << >>
    /\ now = 0
    /\ result = [op |-> "genesis", origin |-> RootOrigin, digest |-> << >>,
                 err |-> OK, remaining |-> 0]
    /\ preCreate = << >>

Commit(s) ==
    /\ Proofs' = s.Proofs
    /\ free' = s.free
    /\ reserved' = s.reserved
    /\ events' = s.events
    /\ now' = s.now

\* preCreate remembers, for each live claim, the owner's balances just before
\* the create, and whether the owner's balances were touched by anything else
\* since.
Touch(pc, s, who) ==
    [d \in DOMAIN pc |->
        IF s.Proofs[d].owner = who THEN [pc[d] EXCEPT !.clean = FALSE] ELSE pc[d]]

CreateClaim(origin, digest) ==
    /\ Len(events) < MaxEvents
    /\ LET o == create_claim(St, origin, digest)
       IN /\ Commit(o.s)
          /\ result' = [op |-> "create_claim", origin |-> origin, digest |-> digest,
                        err |-> o.err, remaining |-> o.remaining]
          /\ preCreate' =
                IF o.err = OK
                THEN LET t == Touch(preCreate, St, origin.who)
                     IN [d \in DOMAIN t \cup {digest} |->
                            IF d = digest
                            THEN [free |-> free[origin.who],
                                  reserved |-> reserved[origin.who], clean |-> TRUE]
                            ELSE t[d]]
                ELSE preCreate

RevokeClaim(origin, digest) ==
    /\ Len(events) < MaxEvents
    /\ LET o == revoke_claim(St, origin, digest)
       IN /\ Commit(o.s)
          /\ result' = [op |-> "revoke_claim", origin |-> origin, digest |-> digest,
                        err |-> o.err, remaining |-> o.remaining]
          /\ preCreate' =
                IF o.err = OK
                THEN LET t == Touch(preCreate, St, origin.who)
                     IN [d \in DOMAIN t \ {digest} |-> t[d]]
                ELSE preCreate

\* The timestamp module moves the block time forward between blocks.
SetTimestamp ==
    /\ now < MaxTime
    /\ now' = now + 1
    /\ result' = [op |-> "set_timestamp", origin |-> RootOrigin, digest |-> << >>,
                  err |-> OK, remaining |-> 0]
    /\ UNCHANGED <<Proofs, free, reserved, events, preCreate>>

\* Another user of the Currency takes reserved funds away from an account.
SlashReserved(who, value) ==
    /\ reserved[who] > 0
    /\ reserved' = slash_reserved(St, who, value).reserved
    /\ preCreate' = Touch(preCreate, St, who)
    /\ result' = [op |-> "slash_reserved", origin |-> Signed(who), digest |-> << >>,
                  err |-> OK, remaining |-> 0]
    /\ UNCHANGED <<Proofs, free, events, now>>

Next ==
    \/ \E origin \in Origins, digest \in Digests : CreateClaim(origin, digest)
    \/ \E origin \in Origins, digest \in Digests : RevokeClaim(origin, digest)
    \/ SetTimestamp

Spec == Init /\ [][Next]_vars

NextEscrow ==
    \/ \E origin \in Origins, digest \in Digests : CreateClaim(origin, digest)
    \/ \E origin \in Origins, digest \in Digests : RevokeClaim(origin, digest)
    \/ SetTimestamp
    \/ \E who \in Accounts, value \in SlashValues : SlashReserved(who, value)

SpecEscrow == Init /\ [][NextEscrow]_vars

\* ------------------------------------------------------------------- claims
ValidDigests == {d \in Digests : Len(d) <= DIGEST_MAXSIZE}
LastEvent == events[Len(events)]

\* C1 (uniqueness).  A create_claim on a digest that has a live claim is
\* rejected as already claimed for every caller, the owner included, and
\* leaves the stored (owner, time) as it was; across every step a stored entry
\* is never changed in place: it appears only by a successful create_claim of
\* that digest (owned by the caller) and disappears only by a successful
\* revoke_claim of that digest by its owner.
C1_Uniqueness ==
    [][ /\ \A who \in Accounts, d \in DOMAIN Proofs :
              LET o == create_claim(St, Signed(who), d)
              IN o.err = ERR_ALREADY_CLAIMED /\ o.s.Proofs = Proofs
        /\ \A d \in Digests :
              /\ (d \in DOMAIN Proofs /\ d \in DOMAIN Proofs') => Proofs'[d] = Proofs[d]
              /\ (d \notin DOMAIN Proofs /\ d \in DOMAIN Proofs') =>
                    /\ result'.op = "create_claim" /\ result'.err = OK
                    /\ result'.digest = d
                    /\ result'.origin = Signed(Proofs'[d].owner)
              /\ (d \in DOMAIN Proofs /\ d \notin DOMAIN Proofs') =>
                    /\ result'.op = "revoke_claim" /\ result'.err = OK
                    /\ result'.digest = d
                    /\ result'.origin = Signed(Proofs[d].owner)
      ]_vars

\* The owner of a live claim has tried to claim it again and was refused.
C1_Witness ==
    /\ result.op = "create_claim" /\ result.err = ERR_ALREADY_CLAIMED
    /\ result.digest \in DOMAIN Proofs
    /\ result.origin = Signed(Proofs[result.digest].owner)

\* C2 (ownership gate).  revoke_claim by caller on d succeeds only if d has a
\* live claim owned by caller; on a digest claimed by somebody else it returns
\* the not-owner error and the claim stays stored with the same owner.
C2_OwnershipGate ==
    \A who \in Accounts, d \in Digests :
        LET o == revoke_claim(St, Signed(who), d)
        IN /\ o.err = OK => (d \in DOMAIN Proofs /\ Proofs[d].owner = who)
           /\ (d \in DOMAIN Proofs /\ Proofs[d].owner # who) =>
                 /\ o.err = ERR_NOT_OWNER
                 /\ d \in DOMAIN o.s.Proofs
                 /\ o.s.Proofs[d].owner = Proofs[d].owner

\* Somebody who is not the owner has tried to revoke a live claim.
C2_Witness ==
    /\ result.op = "revoke_claim" /\ result.err = ERR_NOT_OWNER
    /\ result.digest \in DOMAIN Proofs
    /\ result.origin # Signed(Proofs[result.digest].owner)

\* C3 (fee round-trip).  For every live claim d whose owner's balances were
\* touched by nothing else since d was created, the owner's revoke_claim of d
\* succeeds and puts the owner's free and reserved balances back to exactly
\* what they were just before the create.
C3_FeeRoundTrip ==
    \A d \in DOMAIN Proofs :
        preCreate[d].clean =>
            LET who == Proofs[d].owner
                o == revoke_claim(St, Signed(who), d)
            IN /\ o.err = OK
               /\ o.s.free[who] = preCreate[d].free
               /\ o.s.reserved[who] = preCreate[d].reserved

\* An account created a claim, another account then acted, and the first
\* account revoked its claim and has its whole balance free again.
C3_Witness ==
    /\ Len(events) >= 3
    /\ result.op = "revoke_claim" /\ result.err = OK
    /\ LET n == Len(events)
       IN /\ events[n].kind = "ClaimRevoked"
          /\ events[n - 2].kind = "ClaimCreated"
          /\ events[n - 2].who = events[n].who
          /\ events[n - 2].digest = events[n].digest
          /\ events[n - 1].who # events[n].who
          /\ result.origin = Signed(events[n].who)
          /\ reserved[events[n].who] = 0
          /\ free[events[n].who] \in InitBalances

\* C4 as stated: after any failing create_claim the store has no entry for
\* the digest and the caller's balances are unchanged.
C4_AsStated ==
    \A who \in Accounts, d \in Digests :
        LET o == create_claim(St, Signed(who), d)
        IN o.err # OK =>
              /\ d \notin DOMAIN o.s.Proofs
              /\ o.s.free[who] = free[who]
              /\ o.s.reserved[who] = reserved[who]

\* C4 (atomicity on failure, amended).  After any failing create_claim the
\* store holds for the digest exactly what it held before (nothing, unless the
\* failure is "already claimed", where the existing claim is still there) and
\* the caller's free and reserved balances are unchanged.
C4_AtomicOnFailure ==
    \A who \in Accounts, d \in Digests :
        LET o == create_claim(St, Signed(who), d)
        IN o.err # OK =>
              /\ (d \in DOMAIN o.s.Proofs) = (d \in DOMAIN Proofs)
              /\ (d \in DOMAIN o.s.Proofs) = (o.err = ERR_ALREADY_CLAIMED)
              /\ d \in DOMAIN Proofs => o.s.Proofs[d] = Proofs[d]
              /\ o.s.free[who] = free[who]
              /\ o.s.reserved[who] = reserved[who]

\* A create_claim by another account failed on a digest that is claimed: the
\* store does hold an entry for it.
C4_Witness ==
    /\ result.op = "create_claim" /\ result.err = ERR_ALREADY_CLAIMED
    /\ result.digest \in DOMAIN Proofs
    /\ result.origin.kind = "Signed"
    /\ result.origin # Signed(Proofs[result.digest].owner)

\* C5 (failed create is a no-op).  A create_claim that fails with digest too
\* long, already claimed or not enough funds leaves the whole store, every
\* account's free and reserved balance and the event log as they were.
C5_FailedCreateNoOp ==
    \A who \in Accounts, d \in Digests :
        LET o == create_claim(St, Signed(who), d)
        IN o.err \in {ERR_DIGEST_TOO_LONG, ERR_ALREADY_CLAIMED, ERR_NO_FUNDS} =>
              /\ o.s.Proofs = Proofs
              /\ o.s.free = free
              /\ o.s.reserved = reserved
              /\ o.s.events = events

\* A create_claim failed for lack of funds while claims and events exist.
C5_Witness ==
    /\ result.op = "create_claim" /\ result.err = ERR_NO_FUNDS
    /\ Proofs # << >>
    /\ events # << >>

\* C6 (rejected revoke has no side effects).  A revoke_claim that fails with
\* digest too long, not claimed or not owner leaves the store, every account's
\* free and reserved balance and the event log as they were; a non-owner's
\* failed revoke neither removes the claim nor releases anything.
C6_FailedRevokeNoOp ==
    \A who \in Accounts, d \in Digests :
        LET o == revoke_claim(St, Signed(who), d)
        IN /\ o.err \in {ERR_DIGEST_TOO_LONG, ERR_NOT_CLAIMED, ERR_NOT_OWNER} =>
                 /\ o.s.Proofs = Proofs
                 /\ o.s.free = free
                 /\ o.s.reserved = reserved
                 /\ o.s.events = events
           /\ (d \in DOMAIN Proofs /\ Proofs[d].owner # who) => o.s = St

\* A non-owner's revoke was refused while the owner holds a reserved deposit.
C6_Witness ==
    /\ result.op = "revoke_claim" /\ result.err = ERR_NOT_OWNER
    /\ result.digest \in DOMAIN Proofs
    /\ reserved[Proofs[result.digest].owner] >= POE_FEE
    /\ LastEvent.kind = "ClaimCreated"

\* C7 (size bound).  create_claim and revoke_claim return the digest-too-long
\* error exactly for the digests longer than DIGEST_MAXSIZE, whatever the
\* caller, its balance and the store hold; a digest of exactly DIGEST_MAXSIZE
\* bytes passes the size check.
C7_SizeBound ==
    \A who \in Accounts, d \in Digests :
        /\ (create_claim(St, Signed(who), d).err = ERR_DIGEST_TOO_LONG)
              = (Len(d) > DIGEST_MAXSIZE)
        /\ (revoke_claim(St, Signed(who), d).err = ERR_DIGEST_TOO_LONG)
              = (Len(d) > DIGEST_MAXSIZE)

\* A digest of DIGEST_MAXSIZE bytes is claimed, and a call with a digest one
\* byte longer was refused as too long.
C7_Witness ==
    /\ result.err = ERR_DIGEST_TOO_LONG
    /\ Len(result.digest) = DIGEST_MAXSIZE + 1
    /\ \E d \in DOMAIN Proofs : Len(d) = DIGEST_MAXSIZE

\* C8 (cycle).  From every reachable state where a valid digest d is
\* unclaimed and two distinct accounts A and B each have POE_FEE free,
\* create_claim(A, d), revoke_claim(A, d), create_claim(B, d) all succeed in
\* that order, taking d through claimed by A, unclaimed, claimed by B.
C8_Cycle ==
    \A A \in Accounts, B \in Accounts, d \in ValidDigests :
        (A # B /\ d \notin DOMAIN Proofs /\ free[A] >= POE_FEE /\ free[B] >= POE_FEE) =>
            LET o1 == create_claim(St, Signed(A), d)
                o2 == revoke_claim(o1.s, Signed(A), d)
                o3 == create_claim(o2.s, Signed(B), d)
            IN /\ o1.err = OK /\ d \in DOMAIN o1.s.Proofs /\ o1.s.Proofs[d].owner = A
               /\ o2.err = OK /\ d \notin DOMAIN o2.s.Proofs
               /\ o3.err = OK /\ d \in DOMAIN o3.s.Proofs /\ o3.s.Proofs[d].owner = B

\* The cycle has been run: the last three events are A's create, A's revoke
\* and B's create of the same digest, which B now owns.
C8_Witness ==
    /\ Len(events) >= 3
    /\ LET n == Len(events)
           d == events[n].digest
       IN /\ events[n - 2].kind = "ClaimCreated" /\ events[n - 2].digest = d
          /\ events[n - 1].kind = "ClaimRevoked" /\ events[n - 1].digest = d
          /\ events[n].kind = "ClaimCreated"
          /\ events[n - 1].who = events[n - 2].who
          /\ events[n].who # events[n - 2].who
          /\ d \in DOMAIN Proofs /\ Proofs[d].owner = events[n].who
          /\ result.op = "create_claim" /\ result.err = OK

C10_CreateGates ==
    \A who \in Accounts, d \in Digests :
        LET o == create_claim(St, Signed(who), d)
        IN /\ o.err = IF Len(d) > DIGEST_MAXSIZE THEN ERR_DIGEST_TOO_LONG
                      ELSE IF d \in DOMAIN Proofs THEN ERR_ALREADY_CLAIMED
                      ELSE IF ~reserve(St, who, POE_FEE).ok THEN ERR_NO_FUNDS
                      ELSE OK
           /\ (o.err = OK) = (/\ Len(d) <= DIGEST_MAXSIZE
                              /\ d \notin DOMAIN Proofs
                              /\ reserve(St, who, POE_FEE).ok)
           /\ o.err \in {ERR_DIGEST_TOO_LONG, ERR_ALREADY_CLAIMED} =>
                 (o.s.free = free /\ o.s.reserved = reserved)
           /\ o.err = ERR_NO_FUNDS => o.s.Proofs = Proofs

\* A caller without funds was refused for a local reason first: its
\* create_claim of a claimed or oversized digest did not reach the escrow.
C10_Witness ==
    /\ result.op = "create_claim"
    /\ result.err \in {ERR_ALREADY_CLAIMED, ERR_DIGEST_TOO_LONG}
    /\ result.origin.kind = "Signed"
    /\ free[result.origin.who] < POE_FEE

\* C11 (revoke gates).  revoke_claim by a signed caller returns the error of
\* the first failing gate in the order size, not claimed, not owner, and
\* succeeds exactly when the digest is short enough, has a live claim and the
\* caller owns it: an unclaimed digest gives "not claimed" to every caller,
\* and the owner of a live claim is never refused.
C11_RevokeGates ==
    \A who \in Accounts, d \in Digests :
        LET o == revoke_claim(St, Signed(who), d)
        IN /\ o.err = IF Len(d) > DIGEST_MAXSIZE THEN ERR_DIGEST_TOO_LONG
                      ELSE IF d \notin DOMAIN Proofs THEN ERR_NOT_CLAIMED
                      ELSE IF Proofs[d].owner # who THEN ERR_NOT_OWNER
                      ELSE OK
           /\ (o.err = OK) = (/\ Len(d) <= DIGEST_MAXSIZE
                              /\ d \in DOMAIN Proofs
                              /\ Proofs[d].owner = who)
           /\ (Len(d) <= DIGEST_MAXSIZE /\ d \notin DOMAIN Proofs) =>
                 o.err = ERR_NOT_CLAIMED

\* A revoke of a valid digest nobody holds was refused as not claimed while
\* the caller does own another claim.
C11_Witness ==
    /\ result.op = "revoke_claim" /\ result.err = ERR_NOT_CLAIMED
    /\ result.digest \notin DOMAIN Proofs
    /\ \E d \in DOMAIN Proofs : result.origin = Signed(Proofs[d].owner)

\* C12 (create postcondition).  After a successful create_claim by caller on
\* d at block time t the store maps d to exactly (caller, t), the caller's
\* free balance is down by the fee of 1000 and its reserved balance up by the
\* same, and exactly one ClaimCreated(caller, t, d) has been appended.
C12_CreatePost ==
    \A who \in Accounts, d \in Digests :
        LET o == create_claim(St, Signed(who), d)
        IN o.err = OK =>
              /\ d \in DOMAIN o.s.Proofs
              /\ o.s.Proofs[d] = [owner |-> who, time |-> now]
              /\ POE_FEE = 1000
              /\ o.s.free[who] = free[who] - 1000
              /\ o.s.reserved[who] = reserved[who] + 1000
              /\ o.s.events = Append(events, ClaimCreated(who, now, d))

\* A create_claim has succeeded at a block time after genesis.
C12_Witness ==
    /\ result.op = "create_claim" /\ result.err = OK
    /\ now > 0
    /\ result.digest \in DOMAIN Proofs
    /\ Proofs[result.digest] = [owner |-> result.origin.who, time |-> now]
    /\ LastEvent = ClaimCreated(result.origin.who, now, result.digest)

\* C13 (revoke postcondition).  After a successful revoke_claim by caller on
\* d the store has no entry for d, the caller's reserved balance is down by
\* the fee and its free balance up by the fee, and exactly one
\* ClaimRevoked(caller, d) has been appended.
C13_RevokePost ==
    \A who \in Accounts, d \in Digests :
        LET o == revoke_claim(St, Signed(who), d)
        IN o.err = OK =>
              /\ d \notin DOMAIN o.s.Proofs
              /\ o.s.reserved[who] = reserved[who] - POE_FEE
              /\ o.s.free[who] = free[who] + POE_FEE
              /\ o.s.events = Append(events, ClaimRevoked(who, d))

\* A revoke_claim has succeeded for an account that still holds another claim.
C13_Witness ==
    /\ result.op = "revoke_claim" /\ result.err = OK
    /\ result.digest \notin DOMAIN Proofs
    /\ LastEvent = ClaimRevoked(result.origin.who, result.digest)
    /\ \E d \in DOMAIN Proofs : Proofs[d].owner = result.origin.who
    /\ reserved[result.origin.who] = POE_FEE

\* Replaying an event log from the empty store.
RECURSIVE Replay(_)
Replay(log) ==
    IF log = << >> THEN << >>
    ELSE LET n == Len(log)
             ev == log[n]
             before == Replay(SubSeq(log, 1, n - 1))
         IN IF ev.kind = "ClaimCreated"
            THEN [d \in DOMAIN before \cup {ev.digest} |->
                     IF d = ev.digest THEN [owner |-> ev.who, time |-> ev.time]
                     ELSE before[d]]
            ELSE [d \in DOMAIN before \ {ev.digest} |-> before[d]]

\* C14 (event replay).  In every reachable state replaying the event log from
\* the empty store gives exactly the current store; every successful call
\* appends exactly one event and a failed call appends none.
C14_EventReplay ==
    /\ Replay(events) = Proofs
    /\ \A who \in Accounts, d \in Digests :
          LET c == create_claim(St, Signed(who), d)
              r == revoke_claim(St, Signed(who), d)
          IN /\ Len(c.s.events) = Len(events) + (IF c.err = OK THEN 1 ELSE 0)
             /\ Len(r.s.events) = Len(events) + (IF r.err = OK THEN 1 ELSE 0)
             /\ c.err # OK => c.s.events = events
             /\ r.err # OK => r.s.events = events

\* The log holds creates and a revoke, and a claim is still live.
C14_Witness ==
    /\ Len(events) >= 3
    /\ \E i \in 1..Len(events) : events[i].kind = "ClaimRevoked"
    /\ Proofs # << >>
    /\ Replay(events) = Proofs

\* The events about one digest, in order.
EventsOf(d) == SelectSeq(events, LAMBDA ev : ev.digest = d)

\* C15 (owner and time of the latest create).  For every claimed digest the
\* stored owner and time are the caller and the block time of the most recent
\* successful create_claim on it, which is the last event about that digest;
\* a create by caller at block time t stores (caller, t) whatever an earlier
\* claim on the digest held.
C15_LatestCreate ==
    /\ \A d \in DOMAIN Proofs :
          LET evs == EventsOf(d)
          IN /\ evs # << >>
             /\ evs[Len(evs)] = ClaimCreated(Proofs[d].owner, Proofs[d].time, d)
    /\ \A who \in Accounts, d \in Digests :
          LET o == create_claim(St, Signed(who), d)
          IN o.err = OK => (o.s.Proofs[d].owner = who /\ o.s.Proofs[d].time = now)

\* A digest was claimed, revoked and claimed again by another account at a
\* later time: the store holds the new owner and the new time.
C15_Witness ==
    \E d \in DOMAIN Proofs :
        LET evs == EventsOf(d)
        IN /\ Len(evs) >= 3
           /\ evs[1].kind = "ClaimCreated"
           /\ evs[1].who # Proofs[d].owner
           /\ evs[1].time # Proofs[d].time
           /\ Proofs[d].time = now

\* C16 (stored digests are short).  Every digest that is a key of the store
\* has at most DIGEST_MAXSIZE bytes.
C16_StoredDigestSize ==
    \A d \in DOMAIN Proofs : Len(d) <= DIGEST_MAXSIZE

\* Every valid digest is claimed, the one of exactly DIGEST_MAXSIZE bytes
\* included, and nothing longer is.
C16_Witness ==
    /\ Fill(DIGEST_MAXSIZE, 0) \in DOMAIN Proofs
    /\ DOMAIN Proofs = ValidDigests

\* The live claims an account owns.
Owned(a) == {d \in DOMAIN Proofs : Proofs[d].owner = a}

\* C17 (reserved matches live claims).  With the Currency used only by this
\* module and nothing reserved at genesis, each account's reserved balance is
\* POE_FEE times the number of live claims it owns, so the unreserve of an
\* owner's revoke_claim finds the full fee.
C17_ReservedMatchesClaims ==
    /\ \A a \in Accounts : reserved[a] = POE_FEE * Cardinality(Owned(a))
    /\ \A d \in DOMAIN Proofs :
          LET o == revoke_claim(St, Signed(Proofs[d].owner), d)
          IN o.err = OK /\ o.remaining = 0

\* One account owns two live claims and has two fees reserved.
C17_Witness ==
    \E a \in Accounts :
        /\ Cardinality(Owned(a)) = 2
        /\ reserved[a] = 2 * POE_FEE

\* C18 (the deposit is reserved, never spent or minted).  No step changes an
\* account's free + reserved total, so it stays the genesis total; the free
\* balance never goes below zero and the live claims of an account never
\* cost more than that total.
C18_StakeConserved ==
    [][ \A a \in Accounts :
           /\ free'[a] + reserved'[a] = free[a] + reserved[a]
           /\ free'[a] >= 0
           /\ reserved'[a] >= 0
           /\ POE_FEE * Cardinality({d \in DOMAIN Proofs' : Proofs'[d].owner = a})
                 <= free[a] + reserved[a]
      ]_vars

\* An account that started with one fee holds one claim, has nothing free,
\* and its next create_claim was refused for lack of funds.
C18_Witness ==
    /\ result.op = "create_claim" /\ result.err = ERR_NO_FUNDS
    /\ result.origin.kind = "Signed"
    /\ free[result.origin.who] = 0
    /\ reserved[result.origin.who] = LowBalance
    /\ Cardinality(Owned(result.origin.who)) = 1

\* What a call must leave alone: the entries of the other digests and the
\* balances of the other accounts.
FrameKept(o, who, d) ==
    /\ \A d2 \in Digests \ {d} :
          /\ (d2 \in DOMAIN o.s.Proofs) = (d2 \in DOMAIN Proofs)
          /\ d2 \in DOMAIN Proofs => o.s.Proofs[d2] = Proofs[d2]
    /\ \A a \in Accounts \ {who} :
          /\ o.s.free[a] = free[a]
          /\ o.s.reserved[a] = reserved[a]

\* C19 (frame).  A create_claim or revoke_claim by caller on d, successful or
\* not, leaves the store entries of every other digest and the free and
\* reserved balances of every other account unchanged.
C19_Frame ==
    \A who \in Accounts, d \in Digests :
        /\ FrameKept(create_claim(St, Signed(who), d), who, d)
        /\ FrameKept(revoke_claim(St, Signed(who), d), who, d)

\* A call succeeded while the other account holds a claim on another digest
\* and a reserved deposit.
C19_Witness ==
    /\ result.op \in {"create_claim", "revoke_claim"} /\ result.err = OK
    /\ \E d \in DOMAIN Proofs :
          /\ d # result.digest
          /\ Proofs[d].owner # result.origin.who
          /\ reserved[Proofs[d].owner] = POE_FEE

\* C20 (events alternate).  For every digest the events about it alternate
\* ClaimCreated, ClaimRevoked, ClaimCreated, ... starting with ClaimCreated,
\* and each ClaimRevoked names the account of the ClaimCreated just before it.
C20_EventsAlternate ==
    \A d \in Digests :
        LET evs == EventsOf(d)
        IN \A i \in 1..Len(evs) :
              IF i % 2 = 1
              THEN evs[i].kind = "ClaimCreated"
              ELSE /\ evs[i].kind = "ClaimRevoked"
                   /\ evs[i].who = evs[i - 1].who

\* One digest was claimed, revoked and claimed again by the same account.
C20_Witness ==
    \E d \in Digests :
        LET evs == EventsOf(d)
        IN /\ Len(evs) >= 3
           /\ evs[2].kind = "ClaimRevoked"
           /\ evs[3].who = evs[1].who

TypeOK ==
    /\ DOMAIN Proofs \subseteq Digests
    /\ \A d \in DOMAIN Proofs : Proofs[d].owner \in Accounts /\ Proofs[d].time \in 0..MaxTime
    /\ free \in [Accounts -> Nat]
    /\ reserved \in [Accounts -> Nat]
    /\ Len(events) <= MaxEvents
    /\ DOMAIN preCreate = DOMAIN Proofs
====
